---- MODULE Spec2Model ----
(***************************************************************************)
(* SmartSchedule: the recurring study-block generator of PlannerEngine     *)
(* (planner_engine.py) over the user document kept by DBService            *)
(* (db_service.py).                                                        *)
(*                                                                         *)
(* Encodings.                                                              *)
(*  - A string that the code inspects character by character (an item     *)
(*    name, a class subject, a block label) is a sequence of one-character *)
(*    strings, so that str.lower() and the "Work on " prefix are computed. *)
(*  - A calendar date is its day ordinal, day 0 being a Monday; the        *)
(*    "%Y-%m-%d" text of a date orders as the ordinal does.                *)
(*  - A clock string "HH:MM" is the record [h, m] of its two fields; a     *)
(*    record whose fields are out of range is a malformed string, and      *)
(*    NoneTime stands for no string at all (None).                         *)
(*  - An instant is its number of minutes on the UTC+8 (PH_TZ) wall clock. *)
(*  - Hours (floats in the code) are counted in minutes.                   *)
(***************************************************************************)
EXTENDS Integers, Sequences, FiniteSets, TLC

VARIABLES tasks, tests, schedule, study_windows, generated_plan, setup_complete, chat_history, last

vars == <<tasks, tests, schedule, study_windows, generated_plan, setup_complete, chat_history, last>>

(***************************************************************************)
(* Bounds of the model.                                                    *)
(***************************************************************************)
MaxTasks == 1
MaxTests == 1
MaxClasses == 2
MaxPlan == 3
MaxWindows == 1

(***************************************************************************)
(* Strings.                                                                *)
(***************************************************************************)
UpperLetters == <<"A","B","C","D","E","F","G","H","I","J","K","L","M",
                  "N","O","P","Q","R","S","T","U","V","W","X","Y","Z">>

LowerLetters == <<"a","b","c","d","e","f","g","h","i","j","k","l","m",
                  "n","o","p","q","r","s","t","u","v","w","x","y","z">>

\* the lower-case letter of each upper-case letter
LowerOf ==
  [c \in {UpperLetters[i] : i \in 1..26} |->
     LowerLetters[CHOOSE i \in 1..26 : UpperLetters[i] = c]]

LowerChar(c) == IF c \in DOMAIN LowerOf THEN LowerOf[c] ELSE c

\* str.lower()
lower(s) == [i \in 1..Len(s) |-> LowerChar(s[i])]

\* f"Work on {name}"
WorkOn(name) == <<"W","o","r","k"," ","o","n"," ">> \o name

(***************************************************************************)
(* Program constants.                                                      *)
(***************************************************************************)
\* PH_TZ = timezone(timedelta(hours=8))
PH_TZ == 8

\* SESSION_IDEAL_DURATION_MAP, in minutes
SESSION_IDEAL_DURATION_MAP ==
  [exam |-> 180, project |-> 120, quiz |-> 60, assignment |-> 60,
   seatwork |-> 30, default |-> 60]

\* SESSION_IDEAL_DURATION_MAP.get(item_type, 1.0)
IdealSessionSize(item_type) ==
  IF item_type \in DOMAIN SESSION_IDEAL_DURATION_MAP
    THEN SESSION_IDEAL_DURATION_MAP[item_type]
    ELSE 60

DAY_OF_WEEK_MAP ==
  <<"Monday", "Tuesday", "Wednesday", "Thursday", "Friday", "Saturday", "Sunday">>

\* date.weekday(): Monday = 0
weekday(d) == d % 7

\* DAY_OF_WEEK_MAP[d.weekday()]
DayName(d) == DAY_OF_WEEK_MAP[weekday(d) + 1]

\* a slip in DAY_MAP_TO_INDEX: Sunday, not Monday, is given index 0
TargetDayIndicesSundayFirst(days) ==
  {i \in 0..6 : DAY_OF_WEEK_MAP[((i + 6) % 7) + 1] \in days}

\* DAY_MAP_TO_INDEX: the indices of the requested names it knows
TargetDayIndices(days) ==
  {i \in 0..6 : DAY_OF_WEEK_MAP[i + 1] \in days}

(***************************************************************************)
(* Clock strings.                                                          *)
(***************************************************************************)
HHMM(h, m) == [h |-> h, m |-> m]

\* time.fromisoformat succeeds
IsIsoTime(t) == t.h \in 0..23 /\ t.m \in 0..59

\* time.fromisoformat(t), as minutes since midnight
FromIsoTime(t) == t.h * 60 + t.m

\* the value of a record's missing clock field: dict.get gives None
NoneTime == [h |-> -1, m |-> -1]

\* _time_to_minutes(None): time.fromisoformat raises TypeError, and the
\* function catches ValueError only
TimeToMinutesRaises(t) == t = NoneTime

\* _time_to_minutes of a string: 0 on a malformed one
TimeToMinutes(t) == IF IsIsoTime(t) THEN t.h * 60 + t.m ELSE 0

\* datetime.strftime("%H:%M") of an instant
FormatHM(instant) ==
  [h |-> (instant % (24 * 60)) \div 60, m |-> instant % 60]

\* datetime.combine(day, t, tzinfo=PH_TZ)
Combine(day, minutes) == day * 24 * 60 + minutes

\* now_dt.astimezone(PH_TZ): now is [day, min, off], the wall clock of the
\* client's zone and that zone's offset from UTC in hours
AsPH(now) == now.day * 24 * 60 + now.min + (PH_TZ - now.off) * 60

\* a slip in _check_overlap: the block's start must fall inside the class
CheckOverlapStartInside(start1, end1, start2, end2) ==
  start2 <= start1 /\ start1 < end2

\* _check_overlap
CheckOverlap(start1, end1, start2, end2) == start1 < end2 /\ start2 < end1

(***************************************************************************)
(* Records of the user document.                                           *)
(*  item  : [name, type, deadline, date, priority, duration_hours]; type is *)
(*          the record's task_type (in tasks) or test_type (in tests),     *)
(*          Absent when it has neither; deadline and date are texts        *)
(*  class : [subject, day, start_time, end_time]                           *)
(*  block : [date, start_time, end_time, task, completed]                  *)
(***************************************************************************)
Absent == "<absent>"

\* duration_hours, in minutes; no field at all is NoDuration
Duration(minutes) == [present |-> TRUE, minutes |-> minutes]

NoDuration == [present |-> FALSE, minutes |-> 0]

Item(name, type, deadline, date) ==
  [name |-> name, type |-> type, deadline |-> deadline, date |-> date,
   priority |-> Absent, duration_hours |-> NoDuration]

\* the text of a deadline or date field: "YYYY-MM-DD", "YYYY-MM-DDTHH:MM:SS",
\* a text datetime.fromisoformat rejects, or no field at all
DateText(day) ==
  [present |-> TRUE, valid |-> TRUE, day |-> day, has_time |-> FALSE, tod |-> 0]

DateTimeText(day, tod) ==
  [present |-> TRUE, valid |-> TRUE, day |-> day, has_time |-> TRUE, tod |-> tod]

BadText ==
  [present |-> TRUE, valid |-> FALSE, day |-> 0, has_time |-> FALSE, tod |-> 0]

NoText ==
  [present |-> FALSE, valid |-> FALSE, day |-> 0, has_time |-> FALSE, tod |-> 0]

\* text + "T23:59:59"
EndOfDay(text) == [text EXCEPT !.has_time = TRUE, !.tod = 23 * 60 + 59]

Class(subject, day, start_time, end_time) ==
  [subject |-> subject, day |-> day, start_time |-> start_time, end_time |-> end_time]

\* a note of the generator: the day it is about, the class it names (conflict),
\* the minutes it caps at (cap)
Note(kind, day, subject, minutes) ==
  [kind |-> kind, day |-> day, subject |-> subject, minutes |-> minutes]

\* the smallest element of a non-empty set of integers
Least(S) == CHOOSE i \in S : \A j \in S : i <= j

\* a slip in _check_class_conflict: the class's day name is compared with the
\* weekday index, which it never equals
CheckClassConflictByIndex(block_date, block_start_min, block_end_min, classes) ==
  [raised |-> FALSE, conflict |-> FALSE, subject |-> <<>>]

(***************************************************************************)
(* _check_class_conflict: the classes of the list are tried in order; one  *)
(* on the weekday of the block has its two clock fields converted (which   *)
(* raises on a missing field) and is returned when its minutes overlap the *)
(* block's.  subject is <<>> for None.                                     *)
(***************************************************************************)
CheckClassConflict(block_date, block_start_min, block_end_min, classes) ==
  LET sameDay == {i \in 1..Len(classes) : classes[i].day = DayName(block_date)}
      raising == {i \in sameDay :
                    \/ TimeToMinutesRaises(classes[i].start_time)
                    \/ TimeToMinutesRaises(classes[i].end_time)}
      hits == {i \in sameDay \ raising :
                 CheckOverlap(block_start_min, block_end_min,
                              TimeToMinutes(classes[i].start_time),
                              TimeToMinutes(classes[i].end_time))}
      stops == raising \cup hits
  IN IF stops = {}
       THEN [raised |-> FALSE, conflict |-> FALSE, subject |-> <<>>]
     ELSE IF Least(stops) \in raising
       THEN [raised |-> TRUE, conflict |-> FALSE, subject |-> <<>>]
     ELSE [raised |-> FALSE, conflict |-> TRUE, subject |-> classes[Least(stops)].subject]

\* a slip in the cap: max for min
AllocatedMinutesMax(duration, ideal) == IF duration < ideal THEN ideal ELSE duration

\* min(duration_hours, ideal_session_size)
AllocatedMinutes(duration, ideal) == IF duration < ideal THEN duration ELSE ideal

\* target_item.get("task_type", target_item.get("test_type", "default"))
ItemType(item) == IF item.type = Absent THEN "default" ELSE item.type

\* a slip in the loop test: the deadline's own day is walked too
BeforeStopInclusive(current_day, stop_day) ==
  Combine(current_day, 0) <= Combine(stop_day, 0)

\* the loop test: midnight of current_day is before midnight of the deadline's day
BeforeStop(current_day, stop_day) == Combine(current_day, 0) < Combine(stop_day, 0)

\* the past-time test of the current day
SlotHasPassed(current_day, block_end_dt, now) ==
  current_day = now.day /\ block_end_dt < AsPH(now)

\* a slip in the step: the walk moves on by two days
NextDayByTwo(current_day) == current_day + 2

\* current_day += timedelta(days=1)
NextDay(current_day) == current_day + 1

(***************************************************************************)
(* _generate_recurring_blocks: the day walk.  g holds what the loop reads  *)
(* and never changes; acc is [raised, blocks, messages, iterations].       *)
(***************************************************************************)
RECURSIVE DayWalk(_, _, _)
DayWalk(g, current_day, acc) ==
  IF ~BeforeStop(current_day, g.stop_day) THEN acc
  ELSE
    LET next == [acc EXCEPT !.iterations = @ + 1] IN
    IF weekday(current_day) \notin g.target_day_indices
      THEN DayWalk(g, NextDay(current_day), next)
    ELSE IF ~IsIsoTime(g.start_time) \/ ~IsIsoTime(g.end_time)
      THEN [next EXCEPT !.raised = TRUE]
    ELSE
      LET block_start_dt == Combine(current_day, FromIsoTime(g.start_time))
          block_end_dt == Combine(current_day, FromIsoTime(g.end_time))
          check == CheckClassConflict(current_day, g.requested_start_min,
                                      g.requested_end_min, g.classes)
          duration == block_end_dt - block_start_dt
          allocated == AllocatedMinutes(duration, g.ideal_session_size)
          final_end_dt == block_start_dt + allocated
          capped == IF allocated < duration
                      THEN <<Note("cap", current_day, <<>>, allocated)>>
                      ELSE <<>>
          block == [date |-> current_day,
                    start_time |-> FormatHM(block_start_dt),
                    end_time |-> FormatHM(final_end_dt),
                    task |-> WorkOn(g.name),
                    completed |-> FALSE]
      IN IF SlotHasPassed(current_day, block_end_dt, g.now)
           THEN DayWalk(g, NextDay(current_day),
                  [next EXCEPT !.messages = @ \o <<Note("past", current_day, <<>>, 0)>>])
         ELSE IF check.raised
           THEN [next EXCEPT !.raised = TRUE]
         ELSE IF check.conflict
           THEN DayWalk(g, NextDay(current_day),
                  [next EXCEPT !.messages =
                     @ \o <<Note("conflict", current_day, check.subject, 0)>>])
         ELSE DayWalk(g, NextDay(current_day),
                  [next EXCEPT !.messages = @ \o capped,
                               !.blocks = @ \o <<block>>])

GenerateRecurringBlocks(classes, target_item, stop_day, days, start_time, end_time, now) ==
  IF TimeToMinutesRaises(start_time) \/ TimeToMinutesRaises(end_time)
    THEN [raised |-> TRUE, blocks |-> <<>>, messages |-> <<>>, iterations |-> 0]
  ELSE
  DayWalk([classes |-> classes,
           name |-> target_item.name,
           ideal_session_size |-> IdealSessionSize(ItemType(target_item)),
           target_day_indices |-> TargetDayIndices(days),
           requested_start_min |-> TimeToMinutes(start_time),
           requested_end_min |-> TimeToMinutes(end_time),
           start_time |-> start_time,
           end_time |-> end_time,
           stop_day |-> stop_day,
           now |-> now],
          now.day,
          [raised |-> FALSE, blocks |-> <<>>, messages |-> <<>>, iterations |-> 0])

(***************************************************************************)
(* Inputs: what the callers of the model save and ask for.                 *)
(***************************************************************************)
Essay == <<"E","s","s","a","y">>
essay == <<"e","s","s","a","y">>
Lab == <<"L","a","b">>
Plan == <<"P","l","a","n">>
Misc == <<"M","i","s","c">>
Draft == <<"D","r","a","f","t">>
Quiz == <<"Q","u","i","z">>
Nope == <<"N","o","p","e">>
Math == <<"M","a","t","h">>
PE == <<"P","E">>
Art == <<"A","r","t">>

TaskInputs ==
  { Item(Essay, "assignment", DateTimeText(9, 17 * 60), NoText),
    Item(Lab, "seatwork", DateTimeText(8, 12 * 60), NoText),
    Item(Plan, "project", DateText(0), NoText),
    Item(Misc, Absent, DateTimeText(9, 8 * 60), NoText),
    Item(Draft, "assignment", BadText, NoText) }

\* save_test arguments: name, test_type, date
TestInputs ==
  { Item(essay, "exam", NoText, DateText(9)),
    Item(Quiz, "quiz", NoText, DateText(3)),
    Item(Math, "recital", NoText, DateText(9)) }

ClassInputs ==
  { Class(Math, "Monday", HHMM(14, 0), HHMM(14, 30)),
    Class(Art, "Monday", HHMM(14, 15), HHMM(16, 0)),
    Class(PE, "Wednesday", HHMM(15, 0), HHMM(16, 0)) }

NameInputs == {Essay, essay, Lab, Plan, Misc, Draft, Quiz, Math, Nope}

DaysInputs == { {"Monday"}, {"Monday", "Wednesday", "Funday"} }

\* <<start_time, end_time>>
WindowInputs ==
  { <<HHMM(14, 0), HHMM(15, 0)>>,
    <<HHMM(14, 0), HHMM(17, 0)>>,
    <<HHMM(15, 0), HHMM(14, 0)>>,
    <<HHMM(25, 0), HHMM(15, 0)>> }

Now(day, min, off) == [day |-> day, min |-> min, off |-> off]

NowInputs ==
  { Now(0, 10 * 60, 8), Now(0, 16 * 60, 8), Now(1, 20 * 60, 0) }

\* what the histories of Spec save and ask for: fewer inputs, over many steps
HistoryTasks ==
  { Item(Essay, "assignment", DateTimeText(9, 17 * 60), NoText),
    Item(Draft, "assignment", BadText, NoText) }

HistoryTests == { Item(essay, "exam", NoText, DateText(9)) }

HistoryClasses == { Class(PE, "Wednesday", HHMM(15, 0), HHMM(16, 0)) }

HistoryNames == {Essay, essay, Draft}

HistoryDays == { {"Monday"}, {"Wednesday"} }

HistoryWindows == { <<HHMM(14, 0), HHMM(15, 0)>>, <<HHMM(14, 0), HHMM(17, 0)>> }

HistoryNows == { Now(0, 10 * 60, 8) }

\* the elements of a list
Range(l) == {l[i] : i \in 1..Len(l)}

(***************************************************************************)
(* What the last operation was given and what it returned.                 *)
(***************************************************************************)
NoItem == Item(<<>>, Absent, NoText, NoText)

Idle ==
  [op |-> "signup", status |-> "none", item_name |-> <<>>, days |-> {},
   start_time |-> HHMM(0, 0), end_time |-> HHMM(0, 0), now |-> Now(0, 0, 0),
   target |-> NoItem, stop_day |-> 0, blocks |-> <<>>, messages |-> <<>>,
   iterations |-> 0, has_notes |-> FALSE,
   time_str |-> HHMM(0, 0), minutes |-> 0,
   block_date |-> 0, block_start_min |-> 0, block_end_min |-> 0,
   check |-> [raised |-> FALSE, conflict |-> FALSE, subject |-> <<>>],
   work_items |-> <<>>, args |-> <<>>, function_name |-> ""]

(***************************************************************************)
(* signup: the new user document.                                          *)
(***************************************************************************)
Init ==
  /\ tasks = <<>>
  /\ tests = <<>>
  /\ schedule = <<>>
  /\ study_windows = <<>>
  /\ setup_complete = FALSE
  /\ chat_history = <<>>
  /\ generated_plan = <<>>
  /\ last = Idle

(***************************************************************************)
(* DBService.add_schedule_item                                             *)
(***************************************************************************)
SaveTask(data) ==
  /\ Len(tasks) < MaxTasks
  /\ tasks' = Append(tasks, data)
  /\ last' = [Idle EXCEPT !.op = "save_task", !.status = "success"]
  /\ UNCHANGED <<tests, schedule, study_windows, generated_plan, setup_complete, chat_history>>

\* data['deadline'] = f"{data['date']}T23:59:59"
TestRecord(data) == [data EXCEPT !.deadline = EndOfDay(data.date)]

SaveTest(data) ==
  /\ Len(tests) < MaxTests
  /\ tests' = Append(tests, TestRecord(data))
  /\ last' = [Idle EXCEPT !.op = "save_test", !.status = "success"]
  /\ UNCHANGED <<tasks, schedule, study_windows, generated_plan, setup_complete, chat_history>>

SaveClass(data) ==
  /\ Len(schedule) < MaxClasses
  /\ schedule' = Append(schedule, data)
  /\ last' = [Idle EXCEPT !.op = "save_class", !.status = "success"]
  /\ UNCHANGED <<tasks, tests, study_windows, generated_plan, setup_complete, chat_history>>

(***************************************************************************)
(* PlannerEngine.schedule_recurring_blocks                                 *)
(***************************************************************************)
\* a slip in the lookup: the first item, not None, is the default of next()
FindTargetOrFirst(all_items, item_name) ==
  LET found == {i \in 1..Len(all_items) : lower(all_items[i].name) = lower(item_name)}
  IN IF found # {} THEN all_items[Least(found)]
     ELSE IF all_items # <<>> THEN all_items[1] ELSE NoItem

\* a slip in the lookup: the last item of that name, not the first
FindTargetLast(all_items, item_name) ==
  LET found == {i \in 1..Len(all_items) : lower(all_items[i].name) = lower(item_name)}
  IN IF found = {} THEN NoItem
     ELSE all_items[CHOOSE i \in found : \A j \in found : j <= i]

\* next(item for item in all_items if item.name.lower() == item_name.lower())
FindTarget(all_items, item_name) ==
  LET found == {i \in 1..Len(all_items) : lower(all_items[i].name) = lower(item_name)}
  IN IF found = {} THEN NoItem ELSE all_items[Least(found)]

\* the deadline text parses (after "T23:59:59" is put on a date-only text)
DeadlineParses(text) == text.present /\ text.valid

\* the blocks of the stored plan that the call keeps
KeptBlocks(current_plan, item_name) ==
  SelectSeq(current_plan, LAMBDA p : p.task # WorkOn(item_name))

\* a slip in the write: $push of the blocks for $set of the plan
UpdateGeneratedPlanPush(stored_plan, new_plan) == stored_plan \o new_plan

\* DBService.update_generated_plan: $set
UpdateGeneratedPlan(stored_plan, new_plan) == new_plan

\* a slip in the message: the notes are joined even when there are none
HasNotesAlways(messages) == TRUE

\* if messages: the message carries the notes
HasNotes(messages) == messages # <<>>

ScheduleRecurringBlocks(item_name, days, start_time, end_time, now_dt) ==
  \E target_item \in {FindTarget(tasks \o tests, item_name)} :
  LET failed == [Idle EXCEPT !.op = "schedule_recurring_blocks",
                             !.item_name = item_name, !.target = target_item]
      call == [failed EXCEPT !.days = days, !.start_time = start_time,
                             !.end_time = end_time, !.now = now_dt]
  IN
  IF target_item = NoItem
    THEN /\ last' = [failed EXCEPT !.status = "error_not_found"]
         /\ UNCHANGED <<tasks, tests, schedule, study_windows, generated_plan, setup_complete, chat_history>>
  ELSE IF ~DeadlineParses(target_item.deadline)
    THEN /\ last' = [failed EXCEPT !.status = "error_deadline"]
         /\ UNCHANGED <<tasks, tests, schedule, study_windows, generated_plan, setup_complete, chat_history>>
  ELSE
    \E gen \in {GenerateRecurringBlocks(schedule, target_item,
                                        target_item.deadline.day, days,
                                        start_time, end_time, now_dt)} :
    \E final_plan \in {KeptBlocks(generated_plan, item_name) \o gen.blocks} :
      IF gen.raised
        THEN /\ last' = [failed EXCEPT !.status = "raised"]
             /\ UNCHANGED <<tasks, tests, schedule, study_windows, generated_plan, setup_complete, chat_history>>
        ELSE /\ Len(final_plan) <= MaxPlan
             /\ generated_plan' = UpdateGeneratedPlan(generated_plan, final_plan)
             /\ last' = [call EXCEPT !.status = "success",
                                     !.stop_day = target_item.deadline.day,
                                     !.blocks = gen.blocks,
                                     !.messages = gen.messages,
                                     !.iterations = gen.iterations,
                                     !.has_notes = HasNotes(gen.messages)]
             /\ UNCHANGED <<tasks, tests, schedule, study_windows, setup_complete, chat_history>>

Next ==
  \/ \E data \in HistoryTasks : SaveTask(data)
  \/ \E data \in HistoryTests : SaveTest(data)
  \/ \E data \in HistoryClasses : SaveClass(data)
  \/ \E item_name \in HistoryNames, days \in HistoryDays, w \in HistoryWindows,
        now_dt \in HistoryNows :
       ScheduleRecurringBlocks(item_name, days, w[1], w[2], now_dt)

Spec == Init /\ [][Next]_vars

(***************************************************************************)
(* The generator on its own: any saved tasks, tests and classes, no plan   *)
(* stored yet, and one registration with any of the requests.              *)
(***************************************************************************)
\* the lists of at most n different elements of S
RECURSIVE ListsOf(_, _)
ListsOf(S, n) ==
  IF n = 0 THEN {<<>>}
  ELSE LET shorter == ListsOf(S, n - 1)
       IN shorter \cup UNION {{Append(l, x) : x \in S \ Range(l)} : l \in shorter}

InitGen ==
  /\ tasks \in ListsOf(TaskInputs, MaxTasks)
  /\ tests \in ListsOf({TestRecord(data) : data \in TestInputs}, MaxTests)
  /\ schedule \in ListsOf(ClassInputs, MaxClasses)
  /\ study_windows = <<>>
  /\ setup_complete = FALSE
  /\ chat_history = <<>>
  /\ generated_plan = <<>>
  /\ last = Idle

RegisterRecurring(item_name, days, start_time, end_time, now_dt) ==
  /\ last.op = "signup"
  /\ ScheduleRecurringBlocks(item_name, days, start_time, end_time, now_dt)

NextGen ==
  \E item_name \in NameInputs, days \in DaysInputs, w \in WindowInputs,
     now_dt \in NowInputs :
    RegisterRecurring(item_name, days, w[1], w[2], now_dt)

SpecGen == InitGen /\ [][NextGen]_vars

(***************************************************************************)
(* The helpers on their own: _time_to_minutes, _check_class_conflict and   *)
(* _build_work_queue applied once to a stored document whose records may   *)
(* be malformed or lack a field, and one registration over it.             *)
(***************************************************************************)
\* deadline_str = item.get("deadline", item.get("date"))
DeadlineOrDate(item) == IF item.deadline.present THEN item.deadline ELSE item.date

\* the instant of a text that parses; "T23:59:59" is put on a date-only text
DeadlineInstant(text) ==
  Combine(text.day, IF text.has_time THEN text.tod ELSE 23 * 60 + 59)

\* item.get("task_type", item.get("test_type")): None is Absent
WorkItem(item) ==
  [name |-> item.name,
   deadline |-> DeadlineInstant(DeadlineOrDate(item)),
   item_type |-> item.type]

\* _build_work_queue: a record whose deadline text is missing or does not
\* parse is skipped; now_dt is not read
BuildWorkQueue(all_items, now_dt) ==
  LET parsed == SelectSeq(all_items, LAMBDA item : DeadlineParses(DeadlineOrDate(item)))
  IN [i \in 1..Len(parsed) |-> WorkItem(parsed[i])]

UnitTasks ==
  { Item(Essay, "assignment", DateTimeText(9, 17 * 60), NoText),
    Item(Plan, "project", DateText(1), NoText),
    Item(Misc, Absent, DateTimeText(2, 60), NoText),
    Item(Draft, "assignment", BadText, NoText),
    Item(Lab, "seatwork", NoText, NoText) }

UnitTests == { Item(Quiz, "quiz", NoText, DateText(0)) }

UnitClasses ==
  { Class(Math, "Monday", HHMM(14, 0), HHMM(14, 30)),
    Class(Art, "Monday", HHMM(14, 15), NoneTime),
    Class(PE, "Monday", HHMM(25, 0), HHMM(15, 0)),
    Class(Quiz, "Wednesday", HHMM(15, 0), HHMM(16, 0)) }

TimeStrInputs == {HHMM(14, 30), HHMM(0, 0), HHMM(25, 0), HHMM(9, 75), NoneTime}

\* <<block_start_min, block_end_min>>
RangeInputs ==
  { <<13 * 60, 14 * 60>>, <<13 * 60, 15 * 60>>, <<14 * 60 + 30, 15 * 60>>,
    <<14 * 60 + 30, 14 * 60>>, <<16 * 60, 17 * 60>> }

UnitNames == {Essay, Misc, Plan}

UnitDays == { {"Monday"}, {"Tuesday"}, {"Wednesday"} }

InitUnit ==
  /\ tasks \in ListsOf(UnitTasks, MaxTasks)
  /\ tests \in ListsOf({TestRecord(data) : data \in UnitTests}, MaxTests)
  /\ schedule \in ListsOf(UnitClasses, MaxClasses)
  /\ study_windows = <<>>
  /\ setup_complete = FALSE
  /\ chat_history = <<>>
  /\ generated_plan = <<>>
  /\ last = Idle

TimeToMinutesCall(time_str) ==
  /\ last.op = "signup"
  /\ last' = [Idle EXCEPT !.op = "_time_to_minutes",
                          !.time_str = time_str,
                          !.status = IF TimeToMinutesRaises(time_str)
                                       THEN "raised" ELSE "returned",
                          !.minutes = IF TimeToMinutesRaises(time_str)
                                        THEN 0 ELSE TimeToMinutes(time_str)]
  /\ UNCHANGED <<tasks, tests, schedule, study_windows, generated_plan, setup_complete, chat_history>>

CheckClassConflictCall(block_date, block_start_min, block_end_min) ==
  /\ last.op = "signup"
  /\ \E check \in {CheckClassConflict(block_date, block_start_min,
                                       block_end_min, schedule)} :
       last' = [Idle EXCEPT !.op = "_check_class_conflict",
                            !.block_date = block_date,
                            !.block_start_min = block_start_min,
                            !.block_end_min = block_end_min,
                            !.status = IF check.raised THEN "raised" ELSE "returned",
                            !.check = check]
  /\ UNCHANGED <<tasks, tests, schedule, study_windows, generated_plan, setup_complete, chat_history>>

BuildWorkQueueCall(now_dt) ==
  /\ last.op = "signup"
  /\ last' = [Idle EXCEPT !.op = "_build_work_queue",
                          !.now = now_dt,
                          !.status = "returned",
                          !.work_items = BuildWorkQueue(tasks \o tests, now_dt)]
  /\ UNCHANGED <<tasks, tests, schedule, study_windows, generated_plan, setup_complete, chat_history>>

NextUnit ==
  \/ \E time_str \in TimeStrInputs : TimeToMinutesCall(time_str)
  \/ \E block_date \in {0, 2}, r \in RangeInputs :
       CheckClassConflictCall(block_date, r[1], r[2])
  \/ \E now_dt \in NowInputs : BuildWorkQueueCall(now_dt)
  \/ \E item_name \in UnitNames, days \in UnitDays, now_dt \in NowInputs :
       RegisterRecurring(item_name, days, HHMM(14, 0), HHMM(15, 0), now_dt)

SpecUnit == InitUnit /\ [][NextUnit]_vars

(***************************************************************************)
(* Keeping the stored plan: run_planner_engine, auto_cleanup_past_items,   *)
(* update_task_details and save_study_windows, after registrations.        *)
(***************************************************************************)
\* now_dt.astimezone(PH_TZ).strftime("%Y-%m-%d")
TodayPH(now_dt) == AsPH(now_dt) \div (24 * 60)

\* a slip in the cleanup: the blocks of today are dropped too
PlanFromTodayStrict(final_plan, today) ==
  SelectSeq(final_plan, LAMBDA p : p.date > today)

\* [p for p in final_plan if p['date'] >= today_str]
PlanFromToday(final_plan, today) ==
  SelectSeq(final_plan, LAMBDA p : p.date >= today)

\* a slip in the sort key: the date alone
KeyBeforeByDate(a, b) == a.date < b.date

\* (a["date"], a["start_time"]) < (b["date"], b["start_time"]); the clock texts
\* of blocks are zero-padded and order as their minutes do
KeyBefore(a, b) ==
  \/ a.date < b.date
  \/ a.date = b.date /\ FromIsoTime(a.start_time) < FromIsoTime(b.start_time)

\* a slip in the sort: blocks of equal key change places
SortPlanTiesReversed(plan) ==
  LET before(j, i) == \/ KeyBefore(plan[j], plan[i])
                      \/ ~KeyBefore(plan[i], plan[j]) /\ j > i
      rank(i) == Cardinality({j \in 1..Len(plan) : before(j, i)}) + 1
  IN [k \in 1..Len(plan) |-> plan[CHOOSE i \in 1..Len(plan) : rank(i) = k]]

\* list.sort(key=...): stable
SortPlan(plan) ==
  LET before(j, i) == \/ KeyBefore(plan[j], plan[i])
                      \/ ~KeyBefore(plan[i], plan[j]) /\ j < i
      rank(i) == Cardinality({j \in 1..Len(plan) : before(j, i)}) + 1
  IN [k \in 1..Len(plan) |-> plan[CHOOSE i \in 1..Len(plan) : rank(i) = k]]

\* a slip in the consolidation: the plan is rebuilt from nothing
ConsolidatedFromNothing(final_plan, now_dt) == <<>>

\* a slip in the consolidation: a session of today is planned for the first
\* stored task or test
ConsolidatedWithSession(final_plan, now_dt) ==
  SortPlan(PlanFromToday(final_plan, TodayPH(now_dt))
           \o [i \in 1..(IF tasks \o tests = <<>> THEN 0 ELSE 1) |->
                [date |-> TodayPH(now_dt),
                 start_time |-> HHMM(18, 0),
                 end_time |-> HHMM(19, 0),
                 task |-> WorkOn((tasks \o tests)[1].name),
                 completed |-> FALSE]])

\* the plan run_planner_engine stores
Consolidated(final_plan, now_dt) ==
  SortPlan(PlanFromToday(final_plan, TodayPH(now_dt)))

RunPlannerEngine(now_dt) ==
  /\ generated_plan' = UpdateGeneratedPlan(generated_plan,
                                           Consolidated(generated_plan, now_dt))
  /\ last' = [Idle EXCEPT !.op = "run_planner_engine", !.status = "success",
                          !.now = now_dt]
  /\ UNCHANGED <<tasks, tests, schedule, study_windows, setup_complete, chat_history>>

\* {"deadline": {"$lt": now_iso}}: the texts are compared as strings, on the
\* wall clock of now_dt.  A date-only text is a prefix of the now_iso of its
\* day, and is less; a text that does not parse begins with a letter here and
\* is greater than any now_iso; a record without the field does not match.
DeadlineLessThanNowIso(text, now_dt) ==
  /\ text.present
  /\ text.valid
  /\ \/ text.day < now_dt.day
     \/ text.day = now_dt.day /\ ~text.has_time
     \/ text.day = now_dt.day /\ text.has_time /\ text.tod <= now_dt.min

\* {"date": {"$lt": today_date_str}}, today_date_str = now_dt.strftime("%Y-%m-%d")
DateLessThanToday(text, now_dt) ==
  text.present /\ text.valid /\ text.day < now_dt.day

AutoCleanupPastItems(now_dt) ==
  /\ tasks' = SelectSeq(tasks, LAMBDA t : ~DeadlineLessThanNowIso(t.deadline, now_dt))
  /\ tests' = SelectSeq(tests, LAMBDA t : ~DateLessThanToday(t.date, now_dt))
  /\ generated_plan' = SelectSeq(generated_plan, LAMBDA p : ~(p.date < now_dt.day))
  /\ last' = [Idle EXCEPT !.op = "auto_cleanup_past_items", !.status = "returned",
                          !.now = now_dt]
  /\ UNCHANGED <<schedule, study_windows, setup_complete, chat_history>>

StudyWindow(day, start_time, end_time) ==
  [day |-> day, start_time |-> start_time, end_time |-> end_time]

\* DBService.save_study_windows: $push with $each
SaveStudyWindows(windows) ==
  /\ Len(study_windows) + Len(windows) <= MaxWindows
  /\ study_windows' = study_windows \o windows
  /\ last' = [Idle EXCEPT !.op = "save_study_windows", !.status = "success"]
  /\ UNCHANGED <<tasks, tests, schedule, generated_plan, setup_complete, chat_history>>

\* {"$regex": pattern, "$options": "i"} on a text: the pattern, which holds
\* letters and spaces only, occurs in the text, whatever the case of the letters
RegexFound(pattern, text) ==
  \E i \in 1..(Len(text) - Len(pattern) + 1) :
    lower(SubSeq(text, i, i + Len(pattern) - 1)) = lower(pattern)

\* the arguments of update_task_details; a new_* that is not given is <<>>,
\* Absent, NoText or NoDuration
UpdateArgs(current_name, new_name, new_task_type, new_deadline, new_priority, new_duration_hours) ==
  [current_name |-> current_name, new_name |-> new_name,
   new_task_type |-> new_task_type, new_deadline |-> new_deadline,
   new_priority |-> new_priority, new_duration_hours |-> new_duration_hours]

\* the record after $set of the updates
Updated(item, args) ==
  [item EXCEPT
     !.name = IF args.new_name # <<>> THEN args.new_name ELSE @,
     !.type = IF args.new_task_type # Absent THEN args.new_task_type ELSE @,
     !.deadline = IF args.new_deadline.present THEN args.new_deadline ELSE @,
     !.priority = IF args.new_priority # Absent THEN args.new_priority ELSE @,
     !.duration_hours = IF args.new_duration_hours.present
                          THEN args.new_duration_hours ELSE @]

\* generated_plan.$[elem].task = f"Work on {new_name}" where elem.task matches
Relabelled(plan, current_name, new_name) ==
  [k \in 1..Len(plan) |->
     IF RegexFound(current_name, plan[k].task)
       THEN [plan[k] EXCEPT !.task = WorkOn(new_name)]
       ELSE plan[k]]

(***************************************************************************)
(* DBService.update_task_details: the first task of that very name, or     *)
(* else the first test, gets the updates; when it is renamed, the blocks    *)
(* whose label holds the old name are relabelled.                          *)
(***************************************************************************)
UpdateTaskDetails(args) ==
  LET in_tasks == {i \in 1..Len(tasks) : tasks[i].name = args.current_name}
      in_tests == {i \in 1..Len(tests) : tests[i].name = args.current_name}
      no_updates == Updated(NoItem, args) = NoItem
      done(status) == [Idle EXCEPT !.op = "update_task_details",
                                   !.status = status, !.args = args]
      replan(item, new) ==
        IF args.new_name # <<>> /\ new # item
          THEN Relabelled(generated_plan, args.current_name, args.new_name)
          ELSE generated_plan
  IN
  IF in_tasks = {} /\ in_tests = {}
    THEN /\ last' = done("0")
         /\ UNCHANGED <<tasks, tests, schedule, study_windows, generated_plan, setup_complete, chat_history>>
  ELSE IF no_updates
    THEN /\ last' = done("-1")
         /\ UNCHANGED <<tasks, tests, schedule, study_windows, generated_plan, setup_complete, chat_history>>
  ELSE IF in_tasks # {}
    THEN \E i \in {Least(in_tasks)} :
           /\ tasks' = [tasks EXCEPT ![i] = Updated(@, args)]
           /\ generated_plan' = replan(tasks[i], Updated(tasks[i], args))
           /\ last' = done(IF Updated(tasks[i], args) # tasks[i] THEN "1" ELSE "0")
           /\ UNCHANGED <<tests, schedule, study_windows, setup_complete, chat_history>>
  ELSE \E i \in {Least(in_tests)} :
           /\ tests' = [tests EXCEPT ![i] = Updated(@, args)]
           /\ generated_plan' = replan(tests[i], Updated(tests[i], args))
           /\ last' = done(IF Updated(tests[i], args) # tests[i] THEN "1" ELSE "0")
           /\ UNCHANGED <<tasks, schedule, study_windows, setup_complete, chat_history>>

PlanTasks == { Item(Essay, "assignment", DateTimeText(4, 17 * 60), NoText) }

PlanTests == { Item(Quiz, "quiz", NoText, DateText(5)) }

PlanNames == {Essay, Quiz}

PlanDays == { {"Monday"}, {"Monday", "Wednesday"} }

PlanWindows == { <<HHMM(14, 0), HHMM(15, 0)>>, <<HHMM(15, 0), HHMM(16, 0)>> }

PlanNows == { Now(0, 10 * 60, 8), Now(1, 20 * 60, 0) }

UpdateInputs ==
  { UpdateArgs(Essay, <<>>, Absent, NoText, Absent, Duration(60)),
    UpdateArgs(Essay, <<>>, Absent, DateText(1), Absent, NoDuration),
    UpdateArgs(Quiz, Lab, Absent, NoText, Absent, NoDuration) }

StudyWindowInputs == { <<StudyWindow("Tuesday", HHMM(18, 0), HHMM(20, 0))>> }

InitPlan ==
  /\ tasks \in ListsOf(PlanTasks, MaxTasks)
  /\ tests \in ListsOf({TestRecord(data) : data \in PlanTests}, MaxTests)
  /\ schedule = <<>>
  /\ study_windows = <<>>
  /\ setup_complete = FALSE
  /\ chat_history = <<>>
  /\ generated_plan = <<>>
  /\ last = Idle

NextPlan ==
  \/ \E item_name \in PlanNames, days \in PlanDays, w \in PlanWindows,
        now_dt \in PlanNows :
       ScheduleRecurringBlocks(item_name, days, w[1], w[2], now_dt)
  \/ \E now_dt \in PlanNows : RunPlannerEngine(now_dt)
  \/ \E now_dt \in PlanNows : AutoCleanupPastItems(now_dt)
  \/ \E args \in UpdateInputs : UpdateTaskDetails(args)
  \/ \E windows \in StudyWindowInputs : SaveStudyWindows(windows)

SpecPlan == InitPlan /\ [][NextPlan]_vars

(***************************************************************************)
(* delete_schedule_item, over a document whose names hold one another.     *)
(***************************************************************************)
\* DBService.delete_schedule_item: the classes, tasks and tests of exactly
\* that name are pulled, and the blocks whose label the name is found in
DeleteScheduleItem(item_name) ==
  /\ schedule' = SelectSeq(schedule, LAMBDA c : c.subject # item_name)
  /\ tasks' = SelectSeq(tasks, LAMBDA t : t.name # item_name)
  /\ tests' = SelectSeq(tests, LAMBDA t : t.name # item_name)
  /\ generated_plan' =
       SelectSeq(generated_plan, LAMBDA p : ~RegexFound(item_name, p.task))
  /\ last' = [Idle EXCEPT !.op = "delete_schedule_item",
                          !.item_name = item_name,
                          !.status = IF \/ schedule' # schedule \/ tasks' # tasks
                                        \/ tests' # tests
                                        \/ generated_plan' # generated_plan
                                       THEN "True" ELSE "False"]
  /\ UNCHANGED <<study_windows, setup_complete, chat_history>>

MathHomework == <<"M","a","t","h"," ","H","o","m","e","w","o","r","k">>

DeleteTasks ==
  { Item(MathHomework, "assignment", DateTimeText(4, 17 * 60), NoText),
    Item(Essay, "assignment", DateTimeText(4, 17 * 60), NoText) }

DeleteTests == { Item(Math, "quiz", NoText, DateText(5)) }

DeleteClasses == { Class(Math, "Tuesday", HHMM(9, 0), HHMM(10, 0)) }

DeleteNames == {Math, MathHomework, Essay, Nope}

DeleteDays == { {"Monday"}, {"Monday", "Wednesday"} }

DeleteWindows == { <<HHMM(14, 0), HHMM(15, 0)>>, <<HHMM(15, 0), HHMM(16, 0)>> }

DeleteNows == { Now(0, 10 * 60, 8) }

InitDelete ==
  /\ tasks \in ListsOf(DeleteTasks, MaxTasks)
  /\ tests \in ListsOf({TestRecord(data) : data \in DeleteTests}, MaxTests)
  /\ schedule \in ListsOf(DeleteClasses, MaxClasses)
  /\ study_windows = <<>>
  /\ setup_complete = FALSE
  /\ chat_history = <<>>
  /\ generated_plan = <<>>
  /\ last = Idle

NextDelete ==
  \/ \E item_name \in DeleteNames, days \in DeleteDays, w \in DeleteWindows,
        now_dt \in DeleteNows :
       ScheduleRecurringBlocks(item_name, days, w[1], w[2], now_dt)
  \/ \E item_name \in DeleteNames : DeleteScheduleItem(item_name)

SpecDelete == InitDelete /\ [][NextDelete]_vars

(***************************************************************************)
(* /chat: the lock check, one model response with at most one tool call,   *)
(* the tool's execution and the stored chat history.                       *)
(***************************************************************************)
Message(role, name, content) == [role |-> role, name |-> name, content |-> content]

\* messages_header
MessagesHeader ==
  << Message("system", "", "SYSTEM_PROMPT"),
     Message("system", "", "CRITICAL: The current date and time is"),
     Message("user", "", "Here is my current data.") >>

\* [-10:]
HistoryTail == 10

\* conversational_history: the assistant and tool messages and the user's own
\* messages of the stored history, the last ten of them, without a leading
\* tool message
ConversationalHistory(old_full_history) ==
  LET kept == SelectSeq(old_full_history,
                LAMBDA msg : \/ msg.role \in {"assistant", "tool"}
                             \/ /\ msg.role = "user"
                                /\ msg.content # "Here is my current data.")
      recent == IF Len(kept) > HistoryTail
                  THEN SubSeq(kept, Len(kept) - HistoryTail + 1, Len(kept))
                  ELSE kept
  IN IF recent # <<>> /\ recent[1].role = "tool" THEN Tail(recent) ELSE recent

\* the keys of function_map
FunctionMap ==
  {"save_preference", "save_class", "save_task", "save_test",
   "update_task_details", "update_class_schedule", "delete_schedule_item",
   "schedule_recurring_blocks", "finalize_setup", "run_planner_engine"}

\* the methods class DBService defines
DBServiceMethods ==
  {"__init__", "_parse_deadline_to_aware", "get_active_context_data",
   "set_onboarding_complete", "get_user_data", "update_user_preference",
   "add_schedule_item", "update_task_details", "update_class_schedule",
   "delete_schedule_item", "save_study_windows", "update_generated_plan",
   "auto_cleanup_past_items"}

\* a model response: the name of the function of its tool call, "" without
\* one, and the arguments
ToolCall(function_name, arguments) ==
  [function_name |-> function_name, arguments |-> arguments]

Chat(user_message, response, client_now) ==
  LET function_name == response.function_name
      done(status) == [Idle EXCEPT !.op = "chat", !.status = status,
                                   !.function_name = function_name,
                                   !.now = client_now]
      messages ==
        MessagesHeader \o ConversationalHistory(chat_history)
          \o << Message("user", "", user_message),
                Message("assistant", function_name,
                        IF function_name = "" THEN "content" ELSE "") >>
      with_tool(content) == messages \o << Message("tool", function_name, content) >>
      replanned ==
        UpdateGeneratedPlan(generated_plan, Consolidated(generated_plan, client_now))
  IN
  IF setup_complete
    THEN /\ last' = done("lock_ui")
         /\ UNCHANGED <<tasks, tests, schedule, study_windows, generated_plan,
                        setup_complete, chat_history>>
  ELSE IF function_name = ""
    THEN /\ chat_history' = messages
         /\ last' = done("reply")
         /\ UNCHANGED <<tasks, tests, schedule, study_windows, generated_plan,
                        setup_complete>>
  ELSE IF function_name \notin FunctionMap
    THEN /\ chat_history' =
              with_tool("Error: AI tried to call an unknown function.")
         /\ last' = done("reply")
         /\ UNCHANGED <<tasks, tests, schedule, study_windows, generated_plan,
                        setup_complete>>
  ELSE IF function_name = "finalize_setup"
    THEN IF "mark_setup_complete" \in DBServiceMethods
           THEN /\ setup_complete' = TRUE
                /\ generated_plan' = replanned
                /\ chat_history' = with_tool("Setup complete!")
                /\ last' = done("lock_ui")
                /\ UNCHANGED <<tasks, tests, schedule, study_windows>>
           ELSE /\ last' = done("error")
                /\ UNCHANGED <<tasks, tests, schedule, study_windows,
                               generated_plan, setup_complete, chat_history>>
  ELSE IF function_name = "run_planner_engine"
    THEN /\ generated_plan' = replanned
         /\ chat_history' = with_tool("Plan sorted and validated.")
         /\ last' = done("reply")
         /\ UNCHANGED <<tasks, tests, schedule, study_windows, setup_complete>>
  ELSE /\ function_name = "save_task"
       /\ Len(tasks) < MaxTasks
       /\ tasks' = Append(tasks, response.arguments)
       /\ generated_plan' = replanned
       /\ chat_history' = with_tool("OK, I've added the new task to your schedule.")
       /\ last' = done("reply")
       /\ UNCHANGED <<tests, schedule, study_windows, setup_complete>>

ChatMessages == {"hello"}

ChatResponses ==
  { ToolCall("", NoItem),
    ToolCall("save_task", Item(Essay, "assignment", DateTimeText(4, 17 * 60), NoText)),
    ToolCall("run_planner_engine", NoItem),
    ToolCall("finalize_setup", NoItem),
    ToolCall("order_pizza", NoItem) }

ChatNows == { Now(0, 10 * 60, 8), Now(1, 20 * 60, 0) }

ChatDays == { {"Monday", "Wednesday"} }

ChatWindows == { <<HHMM(14, 0), HHMM(15, 0)>> }

InitChat ==
  /\ tasks = <<>>
  /\ tests \in ListsOf({TestRecord(data) : data \in PlanTests}, MaxTests)
  /\ schedule = <<>>
  /\ study_windows = <<>>
  /\ generated_plan = <<>>
  /\ setup_complete = FALSE
  /\ chat_history = <<>>
  /\ last = Idle

NextChat ==
  \/ \E user_message \in ChatMessages, response \in ChatResponses,
        client_now \in ChatNows :
       Chat(user_message, response, client_now)
  \/ \E item_name \in PlanNames, days \in ChatDays, w \in ChatWindows,
        now_dt \in ChatNows :
       /\ ~setup_complete
       /\ ScheduleRecurringBlocks(item_name, days, w[1], w[2], now_dt)

SpecChat == InitChat /\ [][NextChat]_vars

(***************************************************************************)
(* Properties.  They are stated over what a call was given and what it     *)
(* returned (last) and over the stored document, with their own            *)
(* arithmetic on clock strings and dates.                                  *)
(***************************************************************************)
Registered == last.op = "schedule_recurring_blocks" /\ last.status = "success"

\* minutes since midnight of a well-formed clock string
Minutes(t) == t.h * 60 + t.m

Emitted == Range(last.blocks)

Notes(kind) == {n \in Range(last.messages) : n.kind = kind}

\* the weekday names of a day ordinal whose day 0 is a Monday
NameOfDay(d) ==
  CASE d % 7 = 0 -> "Monday" [] d % 7 = 1 -> "Tuesday" [] d % 7 = 2 -> "Wednesday"
    [] d % 7 = 3 -> "Thursday" [] d % 7 = 4 -> "Friday" [] d % 7 = 5 -> "Saturday"
    [] OTHER -> "Sunday"

\* the classes of the weekday of day d whose minutes overlap [s, e), half-open
ClassesHit(d, s, e) ==
  {j \in 1..Len(schedule) :
     /\ schedule[j].day = NameOfDay(d)
     /\ s < Minutes(schedule[j].end_time)
     /\ Minutes(schedule[j].start_time) < e}

\* C1: no block emitted by a registration overlaps (half-open) a fixed class
\* held on the block's weekday.
C1_NoConflictLeakage ==
  Registered =>
    \A b \in Emitted :
      ClassesHit(b.date, Minutes(b.start_time), Minutes(b.end_time)) = {}

\* C1 witness: a block was emitted on a weekday that has a class, and a day of
\* the same run was refused for a class.
C1_Witness ==
  /\ Registered
  /\ \E b \in Emitted : \E j \in 1..Len(schedule) : schedule[j].day = NameOfDay(b.date)
  /\ Notes("conflict") # {}

\* C2: every block emitted by a registration starts before it ends.
C2_StartBeforeEnd ==
  Registered =>
    \A b \in Emitted : Minutes(b.start_time) < Minutes(b.end_time)

\* C3: every block emitted by a registration is dated from the date of now up
\* to the day before the deadline's date; none is emitted when the deadline's
\* date is the date of now or earlier.
C3_BeforeDeadlineDay ==
  Registered =>
    /\ \A b \in Emitted :
         last.now.day <= b.date /\ b.date < last.target.deadline.day
    /\ (last.target.deadline.day <= last.now.day => last.blocks = <<>>)

\* C3 witness: a block dated the day before the deadline's date.
C3_Witness ==
  /\ Registered
  /\ \E b \in Emitted : b.date = last.target.deadline.day - 1

(***************************************************************************)
(* The stored plan across a registration (C4, C5, C6).                     *)
(***************************************************************************)
\* f"Work on {name}"
Label(name) == <<"W","o","r","k"," ","o","n"," ">> \o name

\* how often block b is in the plan
Count(plan, b) == Cardinality({i \in 1..Len(plan) : plan[i] = b})

\* two plans hold the same blocks, each as often
SameBlocks(p, q) == \A b \in Range(p) \cup Range(q) : Count(p, b) = Count(q, b)

\* the blocks of a plan that are not labelled for the item of that name
BlocksOfOthers(plan, name) == SelectSeq(plan, LAMBDA b : b.task # Label(name))

\* two names that differ at most in the case of their letters
SameIgnoringCase(a, b) ==
  /\ Len(a) = Len(b)
  /\ \A i \in 1..Len(a) :
       \/ a[i] = b[i]
       \/ \E k \in 1..26 : {a[i], b[i]} = {UpperLetters[k], LowerLetters[k]}

\* the stored tasks and tests that a name resolves to, by position
Resolving(name) ==
  {i \in 1..Len(tasks \o tests) : SameIgnoringCase((tasks \o tests)[i].name, name)}

FirstOf(S) == CHOOSE i \in S : \A j \in S : i <= j

\* C4: a registration repeated at once with the same item name, weekdays, times
\* and now leaves the stored plan with the same blocks, none duplicated.
C4_Idempotent ==
  [][ ( /\ Registered
        /\ Registered'
        /\ last'.item_name = last.item_name
        /\ last'.days = last.days
        /\ last'.start_time = last.start_time
        /\ last'.end_time = last.end_time
        /\ last'.now = last.now )
      => SameBlocks(generated_plan, generated_plan') ]_vars

\* C5: a successful registration for an item keeps every stored block labelled
\* for another item, unchanged and in the same order.
C5_OthersUntouched ==
  [][ Registered' =>
        BlocksOfOthers(generated_plan', last'.target.name)
          = BlocksOfOthers(generated_plan, last'.target.name) ]_vars

\* C6: a registration whose item name resolves to no stored task or test, or
\* whose resolved item has a deadline that does not parse, returns an error and
\* leaves tasks, tests, classes and the stored plan as they were.
C6_ErrorLeavesStore ==
  [][ last'.op = "schedule_recurring_blocks" =>
        LET hits == Resolving(last'.item_name)
            text == (tasks \o tests)[FirstOf(hits)].deadline
        IN /\ hits = {} =>
                /\ last'.status = "error_not_found"
                /\ UNCHANGED <<tasks, tests, schedule, generated_plan>>
           /\ (hits # {} /\ ~(text.present /\ text.valid)) =>
                /\ last'.status = "error_deadline"
                /\ UNCHANGED <<tasks, tests, schedule, generated_plan>> ]_vars

\* C6 witness: an unknown name was refused while a plan was stored.
C6_Witness ==
  /\ last.op = "schedule_recurring_blocks"
  /\ last.status = "error_not_found"
  /\ generated_plan # <<>>

(***************************************************************************)
(* One run of the generator (C7 - C10).                                    *)
(***************************************************************************)
\* the instant of now, in minutes on the UTC+8 clock
NowInstant == last.now.day * 1440 + last.now.min + (8 - last.now.off) * 60

\* the days the walk visits
WalkDays == {d \in 0..last.target.deadline.day :
               last.now.day <= d /\ d < last.target.deadline.day}

\* the requested window, in minutes
WindowLength == Minutes(last.end_time) - Minutes(last.start_time)

\* the ideal session of an item type, in minutes
IdealOf(type) ==
  CASE type = "exam" -> 180 [] type = "project" -> 120 [] type = "quiz" -> 60
    [] type = "assignment" -> 60 [] type = "seatwork" -> 30 [] OTHER -> 60

Smaller(a, b) == IF a <= b THEN a ELSE b

NotesOn(kind, d) ==
  {i \in 1..Len(last.messages) : last.messages[i].kind = kind /\ last.messages[i].day = d}

BlocksOn(d) == {i \in 1..Len(last.blocks) : last.blocks[i].date = d}

ScenarioB ==
  /\ Registered
  /\ last.days = {"Monday"}
  /\ last.start_time = [h |-> 14, m |-> 0]
  /\ last.end_time = [h |-> 15, m |-> 0]
  /\ last.target.deadline.day >= 7
  /\ \E j \in 1..Len(schedule) :
       schedule[j] = [subject |-> Math, day |-> "Monday",
                      start_time |-> [h |-> 14, m |-> 0],
                      end_time |-> [h |-> 14, m |-> 30]]
  /\ \A d \in WalkDays : \A j \in ClassesHit(d, 840, 900) : schedule[j].subject = Math

Mondays == {d \in WalkDays : d % 7 = 0}

\* the window of day d had ended at now
WindowPassed(d) == d = last.now.day /\ d * 1440 + Minutes(last.end_time) < NowInstant

\* C8 as claimed: in scenario B the first Monday is skipped with a note naming
\* Math and every later Monday before the deadline day gets a block.
C8_LaterMondaysSucceed ==
  (ScenarioB /\ Mondays # {}) =>
    /\ \E i \in NotesOn("conflict", FirstOf(Mondays)) : last.messages[i].subject = Math
    /\ \A d \in Mondays \ {FirstOf(Mondays)} : BlocksOn(d) # {}

\* C8 amended: in scenario B no block is emitted; every Monday of the walk is
\* skipped with a note naming Math, but for the current day when 15:00 has
\* passed, which is skipped with the past-time note.
C8_EveryMondaySkipped ==
  ScenarioB =>
    /\ last.blocks = <<>>
    /\ \A d \in Mondays :
         IF WindowPassed(d)
           THEN NotesOn("past", d) # {} /\ NotesOn("conflict", d) = {}
           ELSE \E i \in NotesOn("conflict", d) : last.messages[i].subject = Math

\* C8 witness: two Mondays of one run were both refused for Math.
C8_Witness ==
  /\ ScenarioB
  /\ Cardinality(Mondays) >= 2
  /\ \A d \in Mondays : \E i \in NotesOn("conflict", d) : last.messages[i].subject = Math

\* C9: a walked day whose weekday is requested gives exactly one of a past-time
\* note, a conflict note naming the first class in the way, or one block with
\* completed = false labelled for the item, tried in that order; every other
\* day gives no block and no note.
C9_OneOutcomePerDay ==
  Registered =>
    \A d \in 0..(last.target.deadline.day + 7) :
      LET past == NotesOn("past", d)
          conflict == NotesOn("conflict", d)
          blocks == BlocksOn(d)
          inTheWay == ClassesHit(d, Minutes(last.start_time), Minutes(last.end_time))
      IN IF d \in WalkDays /\ NameOfDay(d) \in last.days
           THEN /\ Cardinality(past) + Cardinality(conflict) + Cardinality(blocks) = 1
                /\ (past # {}) <=> WindowPassed(d)
                /\ (conflict # {}) <=> (~WindowPassed(d) /\ inTheWay # {})
                /\ \A i \in conflict :
                     last.messages[i].subject = schedule[FirstOf(inTheWay)].subject
                /\ \A i \in blocks :
                     /\ last.blocks[i].completed = FALSE
                     /\ last.blocks[i].task = Label(last.target.name)
           ELSE /\ blocks = {}
                /\ past = {} /\ conflict = {} /\ NotesOn("cap", d) = {}

\* C9 witness: one run gave a past-time note, a conflict note and a block, and
\* was asked for a weekday name that does not exist.
C9_Witness ==
  /\ Registered
  /\ Notes("past") # {}
  /\ Notes("conflict") # {}
  /\ Emitted # {}
  /\ "Funday" \in last.days

\* C10: a past-time note is only about the current day, it is given whenever
\* the current day is requested and walked and its window had ended at now,
\* and no emitted block ends before now.
C10_PastTimeSkip ==
  Registered =>
    /\ \A n \in Notes("past") : n.day = last.now.day
    /\ (last.now.day \in WalkDays /\ NameOfDay(last.now.day) \in last.days
          /\ WindowPassed(last.now.day))
         => NotesOn("past", last.now.day) # {}
    /\ \A b \in Emitted : b.date * 1440 + Minutes(b.end_time) >= NowInstant

(***************************************************************************)
(* The helpers (C11, C12) and the work queue (C19).                        *)
(***************************************************************************)
\* the minutes a clock string stands for: hour * 60 + minute of a well-formed
\* one, 0 of anything else
ClockMinutes(t) ==
  IF t.h \in 0..23 /\ t.m \in 0..59 THEN t.h * 60 + t.m ELSE 0

\* the classes on the weekday of day d that overlap [s, e), by position
Overlapping(d, s, e) ==
  {j \in 1..Len(schedule) :
     /\ schedule[j].day = NameOfDay(d)
     /\ s < ClockMinutes(schedule[j].end_time)
     /\ ClockMinutes(schedule[j].start_time) < e}

\* C11: for any day, minute range and class list, _check_class_conflict returns
\* (true, S), S the subject of the first class in list order that is on the
\* day's weekday with start < classEnd and classStart < end, and (false, none)
\* when there is no such class.
C11_ConflictResult ==
  last.op = "_check_class_conflict" =>
    LET hits == Overlapping(last.block_date, last.block_start_min, last.block_end_min)
    IN /\ last.status = "returned"
       /\ IF hits = {}
            THEN ~last.check.conflict /\ last.check.subject = <<>>
            ELSE /\ last.check.conflict
                 /\ last.check.subject = schedule[FirstOf(hits)].subject

\* C12: _time_to_minutes returns for every input, hour * 60 + minute for a
\* well-formed string and 0 for a malformed or missing one, and a registration
\* with well-formed times over any class list does not raise.
C12_NeverRaises ==
  /\ last.op = "_time_to_minutes" =>
        /\ last.status = "returned"
        /\ last.minutes = ClockMinutes(last.time_str)
  /\ last.op = "schedule_recurring_blocks" => last.status # "raised"

\* the instant of a deadline text, end of day for a date-only one
InstantOf(text) == text.day * 1440 + (IF text.has_time THEN text.tod ELSE 1439)

\* C19: no item of the work queue has a deadline before now, and a registration
\* for an item whose deadline is before now emits no block.
C19_PastItemsExcluded ==
  /\ last.op = "_build_work_queue" =>
        \A i \in 1..Len(last.work_items) : last.work_items[i].deadline >= NowInstant
  /\ Registered =>
        (InstantOf(last.target.deadline) < NowInstant => last.blocks = <<>>)

(***************************************************************************)
(* The lookup of a registration (C13).                                     *)
(***************************************************************************)
\* C13 as claimed: a registration proceeds only when its name resolves to
\* exactly one stored task or test; with none or several it fails with "item
\* not found" and emits no block.
C13_ExactlyOneMatch ==
  last.op = "schedule_recurring_blocks" =>
    IF Cardinality(Resolving(last.item_name)) = 1
      THEN last.status # "error_not_found"
      ELSE last.status = "error_not_found" /\ last.blocks = <<>>

\* C13 amended: a registration fails with "item not found", emitting no block,
\* exactly when its name resolves to no stored task or test; when it resolves
\* to several, the call proceeds with the first of them, tasks before tests.
C13_FirstMatch ==
  last.op = "schedule_recurring_blocks" =>
    LET hits == Resolving(last.item_name)
    IN /\ (last.status = "error_not_found") <=> (hits = {})
       /\ last.status = "error_not_found" => last.blocks = <<>>
       /\ hits # {} => last.target = (tasks \o tests)[FirstOf(hits)]

\* C13 witness: a name that resolves to a task and to a test was registered
\* for the task, with blocks.
C13_Witness ==
  /\ Registered
  /\ Cardinality(Resolving(last.item_name)) = 2
  /\ tasks # <<>>
  /\ last.target = tasks[1]
  /\ last.blocks # <<>>

(***************************************************************************)
(* The notes of a registration (C20).                                      *)
(***************************************************************************)
\* the requested days of the walk that got no block
SkippedDays == {d \in WalkDays : NameOfDay(d) \in last.days /\ BlocksOn(d) = {}}

\* the blocks that are shorter than the requested window
CappedBlocks ==
  {i \in 1..Len(last.blocks) :
     Minutes(last.blocks[i].end_time) - Minutes(last.blocks[i].start_time) < WindowLength}

\* C20: the notes of a registration are one per skipped day and one per capped
\* block, none when nothing was skipped or capped, and the success message
\* carries the notes exactly when there are some.
C20_NotesAccount ==
  Registered =>
    /\ Len(last.messages) = Cardinality(SkippedDays) + Cardinality(CappedBlocks)
    /\ \A d \in SkippedDays : Cardinality(NotesOn("past", d) \cup NotesOn("conflict", d)) = 1
    /\ \A i \in CappedBlocks : Cardinality(NotesOn("cap", last.blocks[i].date)) = 1
    /\ last.has_notes <=> (last.messages # <<>>)

\* C20 witness: one run without any note and with blocks.
C20_Witness ==
  /\ Registered
  /\ last.blocks # <<>>
  /\ last.messages = <<>>
  /\ ~last.has_notes

(***************************************************************************)
(* run_planner_engine and auto_cleanup_past_items (C14 - C18).             *)
(***************************************************************************)
\* the calendar date of an instant on the UTC+8 clock
DateAtPH(now) == (now.day * 1440 + now.min + (8 - now.off) * 60) \div 1440

\* the blocks of a plan dated d or later
DatedFrom(plan, d) == SelectSeq(plan, LAMBDA b : b.date >= d)

\* C14: after run_planner_engine (today is the date of now on the UTC+8 clock)
\* and after auto_cleanup_past_items (today is the date of now as given) the
\* stored plan has no block dated before today and has every block, as often,
\* that was stored with a date of today or later.
C14_CleanupPass ==
  [][ last'.op \in {"run_planner_engine", "auto_cleanup_past_items"} =>
        LET today == IF last'.op = "run_planner_engine"
                       THEN DateAtPH(last'.now) ELSE last'.now.day
        IN /\ \A k \in 1..Len(generated_plan') : generated_plan'[k].date >= today
           /\ \A b \in Range(generated_plan) :
                b.date >= today => Count(generated_plan', b) = Count(generated_plan, b)
    ]_vars

\* C14 witness: after run_planner_engine the plan holds a block dated today
\* that was emitted for an earlier now.
C14_Witness ==
  /\ last.op = "run_planner_engine"
  /\ DateAtPH(last.now) > 0
  /\ \E b \in Range(generated_plan) : b.date = DateAtPH(last.now)

\* C15: after run_planner_engine no two adjacent stored blocks are out of
\* (date, start_time) order.
C15_SortedAfterReplan ==
  last.op = "run_planner_engine" =>
    \A k \in 1..(Len(generated_plan) - 1) :
      \/ generated_plan[k].date < generated_plan[k + 1].date
      \/ /\ generated_plan[k].date = generated_plan[k + 1].date
         /\ Minutes(generated_plan[k].start_time)
              <= Minutes(generated_plan[k + 1].start_time)

\* C15 witness: after run_planner_engine the plan holds blocks of two items,
\* two of them on one date.
C15_Witness ==
  /\ last.op = "run_planner_engine"
  /\ \E k \in 1..(Len(generated_plan) - 1) :
       /\ generated_plan[k].date = generated_plan[k + 1].date
       /\ generated_plan[k].task # generated_plan[k + 1].task
       /\ generated_plan[k].start_time # generated_plan[k + 1].start_time

\* the stored tasks and tests whose deadline is at now or later
Pending(now) ==
  {i \in 1..Len(tasks \o tests) :
     LET text == (tasks \o tests)[i].deadline
     IN text.present /\ text.valid
        /\ InstantOf(text) >= now.day * 1440 + now.min + (8 - now.off) * 60}

ScoreOf(item) ==
  LET label == IF item.priority # "<absent>" THEN item.priority ELSE item.type
  IN CASE label = "top" -> 0 [] label = "high" -> 1 [] label = "medium" -> 2
       [] label = "low" -> 3 [] label = "exam" -> 1 [] label = "project" -> 5
       [] label = "quiz" -> 3 [] label = "assignment" -> 4
       [] label = "seatwork" -> 5 [] OTHER -> 99

\* the days from today to the day before the last pending deadline
Horizon(now) ==
  {d \in 0..10 : /\ DateAtPH(now) <= d
                 /\ \E i \in Pending(now) : d < (tasks \o tests)[i].deadline.day}

\* the pending records due after the start of window w on day d
Eligible(now, d, w) ==
  {i \in Pending(now) :
     InstantOf((tasks \o tests)[i].deadline) > d * 1440 + Minutes(w.start_time)}

\* window w is free on day d: no stored block of that day meets it, but for
\* one that starts where the window does
FreeSlot(d, w) ==
  /\ NameOfDay(d) = w.day
  /\ \A b \in Range(generated_plan) :
       b.date = d => \/ Minutes(b.end_time) <= Minutes(w.start_time)
                     \/ Minutes(w.end_time) <= Minutes(b.start_time)
                     \/ b.start_time = w.start_time

\* two records of different score are eligible for window w on day d
Contended(now, d, w) ==
  \E i, j \in Eligible(now, d, w) :
    ScoreOf((tasks \o tests)[i]) < ScoreOf((tasks \o tests)[j])

RECURSIVE TotalMinutes(_, _)
TotalMinutes(plan, name) ==
  IF plan = <<>> THEN 0
  ELSE (IF Head(plan).task = Label(name)
          THEN Minutes(Head(plan).end_time) - Minutes(Head(plan).start_time)
          ELSE 0)
       + TotalMinutes(Tail(plan), name)

\* the stored records with an explicit demand, by position
Demanding ==
  {i \in 1..Len(tasks \o tests) : (tasks \o tests)[i].duration_hours.present}

DaysToDeadline ==
  IF last.stop_day > last.now.day THEN last.stop_day - last.now.day ELSE 0

\* C21: a registration that returns walked exactly max(0, date(deadline) -
\* date(now)) days, one per loop pass whichever branch the pass took, and its
\* blocks are in strictly ascending date order, at most one per date.
C21_WalkTerminates ==
  Registered =>
    /\ last.iterations = DaysToDeadline
    /\ \A i, j \in DOMAIN last.blocks :
         i < j => last.blocks[i].date < last.blocks[j].date
    /\ \A d \in 0..(last.stop_day + 7) : Cardinality(BlocksOn(d)) <= 1

\* C21 witness: one walk of more than a week took the past-time skip, the
\* class-conflict skip and the emitting branch, and passed unrequested days.
C21_Witness ==
  /\ Registered
  /\ last.iterations > 7
  /\ last.iterations = DaysToDeadline
  /\ Notes("past") # {}
  /\ Notes("conflict") # {}
  /\ Len(last.blocks) >= 1

\* C21 witness of the floor: a registration whose deadline's date is before
\* the date of now walked no day at all.
C21_WitnessFloor ==
  /\ Registered
  /\ last.stop_day < last.now.day
  /\ last.iterations = 0

(***************************************************************************)
(* run_planner_engine run again (C22).                                     *)
(***************************************************************************)
\* the stored tasks and tests no stored block is labelled for
WithoutBlocks ==
  {i \in 1..Len(tasks \o tests) :
     \A b \in Range(generated_plan) : b.task # Label((tasks \o tests)[i].name)}

C22_WitnessTies ==
  /\ last.op = "run_planner_engine"
  /\ \E i, j \in 1..Len(generated_plan) :
       /\ i < j
       /\ generated_plan[i].date = generated_plan[j].date
       /\ generated_plan[i].start_time = generated_plan[j].start_time
       /\ generated_plan[i].task # generated_plan[j].task

(***************************************************************************)
(* What a deletion removes (C23).                                          *)
(***************************************************************************)
\* C23 as claimed: after delete_schedule_item no stored block is labelled for
\* the deleted name, and every block labelled for another name is stored as
\* often as before.
C23_ExactBlocksRemoved ==
  [][ last'.op = "delete_schedule_item" =>
        /\ \A b \in Range(generated_plan') : b.task # Label(last'.item_name)
        /\ \A b \in Range(generated_plan) :
             b.task # Label(last'.item_name) =>
               Count(generated_plan', b) = Count(generated_plan, b)
    ]_vars

(***************************************************************************)
(* The chat lock (C24).                                                    *)
(***************************************************************************)
\* C24 as claimed: a /chat request on a locked account returns the lock_ui
\* reply, calls no tool and changes no stored list, and a /chat request whose
\* response calls finalize_setup leaves setup_complete true.
C24_ChatLock ==
  [][ last'.op = "chat" =>
        /\ setup_complete =>
             /\ last'.status = "lock_ui"
             /\ UNCHANGED <<tasks, tests, schedule, generated_plan, chat_history>>
             /\ setup_complete'
        /\ last'.function_name = "finalize_setup" => setup_complete'
    ]_vars

====
